---- MODULE Spec2Model ----
(* A model of src/main.py: the daily news pipeline                          *)
(*   getFirstArticleUrl -> getArticleContent -> getGeminiResponse ->        *)
(*   convertToHtml -> api_util.create_post (-> telegram.send_test_message)  *)
(* and of the retry loop of getGeminiResponse on its own.                   *)
(* Strings of the program that are not ASCII are written as ASCII tags.     *)
EXTENDS Integers, Sequences, FiniteSets, TLC

VARIABLES env, pc, raised, article_url, title, body, response, html_response,
          trace, published, notified, log,
          gpc, max_retries, retry_delay, success_delay, attempt, result, events

vars == <<env, pc, raised, article_url, title, body, response, html_response,
          trace, published, notified, log,
          gpc, max_retries, retry_delay, success_delay, attempt, result, events>>

mainVars == <<env, pc, raised, article_url, title, body, response, html_response,
              trace, published, notified>>

geminiVars == <<gpc, max_retries, retry_delay, success_delay, attempt, result, events>>

(***************************************************************************)
(* Bounds                                                                  *)
(***************************************************************************)
MaxRetriesBound == 4

(***************************************************************************)
(* Values                                                                  *)
(***************************************************************************)
\* an exception object / a log line: a tag, its message parts, its numbers
Msg(kind, text, parts, nums) ==
    [kind |-> kind, text |-> text, parts |-> parts, nums |-> nums]

NoException == Msg("", "", <<>>, <<>>)

\* def getGeminiResponse(title, body, max_retries=3, retry_delay=5, success_delay=3)
DefaultMaxRetries == 3
DefaultRetryDelay == 5
DefaultSuccessDelay == 3

\* required_env_vars, in declaration order
required_env_vars ==
    << "PRESS_CODE", "GOOGLE_API_KEY", "GEMINI_MODEL", "BASE_URL",
       "TELEGRAM_CHAT_TEST_ID", "TELEGRAM_CHAT_ID", "TELEGRAM_BOT_TOKEN" >>

EnvNames == { required_env_vars[i] : i \in 1..Len(required_env_vars) }

\* os.getenv(var): None when the variable is absent, "" when it is set to the
\* empty string, its text otherwise
Environments == [EnvNames -> {"absent", "empty", "set"}]

\* required_keys of convertToHtml, in the order the loop checks them
required_keys ==
    << "title", "summary", "meaning", "importance", "impact_on_us",
       "food_for_thought", "key_terms" >>

RequiredKeySet == { required_keys[i] : i \in 1..Len(required_keys) }

\* the text the model gives each string field
FieldText ==
    [k \in RequiredKeySet \ {"key_terms"} |->
        CASE k = "title" -> "T"
          [] k = "summary" -> "S"
          [] k = "meaning" -> "M"
          [] k = "importance" -> "I"
          [] k = "impact_on_us" -> "U"
          [] k = "food_for_thought" -> "F"]

GoodTerm == [k \in {"term", "definition"} |-> IF k = "term" THEN "GDP" ELSE "..."]
TermOnly == [k \in {"term"} |-> "CPI"]
DefinitionOnly == [k \in {"definition"} |-> "???"]

\* the key_terms arrays a response may carry
TermLists == { <<>>, <<GoodTerm>>, <<GoodTerm, TermOnly>>, <<DefinitionOnly>> }

EmptyObject == [k \in {} |-> ""]

\* response.text of a model call: text that is not JSON, JSON that is not an
\* object (a number, true, null), or a JSON object with some of the keys
JsonObjects ==
    { [k \in K |-> IF k = "key_terms" THEN tl ELSE FieldText[k]] :
        K \in SUBSET RequiredKeySet, tl \in TermLists }

ResponseTexts ==
    { [kind |-> "malformed", obj |-> EmptyObject],
      [kind |-> "scalar", obj |-> EmptyObject] }
    \cup { [kind |-> "object", obj |-> o] : o \in JsonObjects }

\* Python's None as the value of `response` / `result`
None == [kind |-> "None", obj |-> EmptyObject]

\* str(e) of a failed model call, as the words it contains
ErrorMessages ==
    { <<"503", "UNAVAILABLE">>, <<"429", "RESOURCE_EXHAUSTED">>,
      <<"400", "INVALID_ARGUMENT">>, <<"500", "INTERNAL">> }

ArticleUrls == { "https://example.com/a1", "https://example.com/a2" }

\* the listing page: HTTP status, how far the chain
\* brick -> ul -> li -> a -> href goes, and the href
ListingPages == [status : {200, 404}, depth : 0..5, href : ArticleUrls]

\* the article page: HTTP status, and whether the two containers exist
ArticlePages == [status : {200, 500}, hasTitle : BOOLEAN, hasBody : BOOLEAN]

\* e.message of an ApiError raised by api_util.create_post
ApiErrorMessages == { "HTTP 500", "timeout" }

(***************************************************************************)
(* getGeminiResponse                                                       *)
(***************************************************************************)
InRangeInclusive(a, m) == a <= m

\* for attempt in range(max_retries)
InRange(a, m) == a < m

\* any(err in error_message for err in ["503", "429", "UNAVAILABLE", "RESOURCE_EXHAUSTED"])
TransientMarkers == {"503", "429", "UNAVAILABLE", "RESOURCE_EXHAUSTED"}
IsTransient(error_message) ==
    \E i \in 1..Len(error_message) : error_message[i] \in TransientMarkers

WaitTimeLinear(delay, a) == delay * (a + 1)

\* wait_time = retry_delay * (2 ** attempt)
WaitTime(delay, a) == delay * (2 ^ a)

\* if attempt < max_retries - 1
NotLastAttempt(a, m) == a < m - 1

\* what the function does to the outside, in order: a call of
\* client.models.generate_content with its outcome, or a time.sleep
CallEvent(a, outcome, text) ==
    [ev |-> "call", attempt |-> a, outcome |-> outcome, text |-> text, secs |-> 0]
SleepEvent(a, secs) ==
    [ev |-> "sleep", attempt |-> a, outcome |-> "", text |-> None, secs |-> secs]

\* the head of the for loop; falling out of it reaches the final `return None`
GeminiForLoop ==
    /\ gpc = "loop"
    /\ IF InRange(attempt, max_retries)
       THEN /\ gpc' = "try"
            /\ UNCHANGED result
       ELSE /\ gpc' = "returned"
            /\ result' = None
    /\ UNCHANGED <<mainVars, log, max_retries, retry_delay, success_delay, attempt, events>>

GeminiCallSucceedsNoSleep ==
    /\ gpc = "try"
    /\ \E text \in ResponseTexts :
         /\ events' = Append(events, CallEvent(attempt, "success", text))
         /\ result' = text
    /\ log' = Append(log, Msg("info", "gemini call ok", <<>>, <<>>))
    /\ gpc' = "returned"
    /\ UNCHANGED <<mainVars, max_retries, retry_delay, success_delay, attempt>>

\* the try body: the call returns, sleep success_delay, log, return result
GeminiCallSucceeds ==
    /\ gpc = "try"
    /\ \E text \in ResponseTexts :
         /\ events' = events \o << CallEvent(attempt, "success", text),
                                   SleepEvent(attempt, success_delay) >>
         /\ result' = text
    /\ log' = Append(log, Msg("info", "gemini call ok", <<>>, <<>>))
    /\ gpc' = "returned"
    /\ UNCHANGED <<mainVars, max_retries, retry_delay, success_delay, attempt>>

\* except Exception, transient branch
GeminiCallOverloaded ==
    /\ gpc = "try"
    /\ \E error_message \in ErrorMessages :
         /\ IsTransient(error_message)
         /\ LET wait_time == WaitTime(retry_delay, attempt)
                warned == Append(log, Msg("warning", "overloaded, retry after",
                                          <<>>, <<wait_time, attempt + 1, max_retries>>))
            IN IF NotLastAttempt(attempt, max_retries)
               THEN /\ events' = events \o << CallEvent(attempt, "transient", None),
                                              SleepEvent(attempt, wait_time) >>
                    /\ log' = warned
                    /\ attempt' = attempt + 1
                    /\ gpc' = "loop"
                    /\ UNCHANGED result
               ELSE /\ events' = Append(events, CallEvent(attempt, "transient", None))
                    /\ log' = Append(warned, Msg("error", "max retries exceeded",
                                                 error_message, <<>>))
                    /\ result' = None
                    /\ gpc' = "returned"
                    /\ UNCHANGED attempt
    /\ UNCHANGED <<mainVars, max_retries, retry_delay, success_delay>>

GeminiCallFailsRetrying ==
    /\ gpc = "try"
    /\ \E error_message \in ErrorMessages :
         /\ ~IsTransient(error_message)
         /\ log' = Append(log, Msg("error", "unexpected api error", error_message, <<>>))
    /\ events' = Append(events, CallEvent(attempt, "fatal", None))
    /\ attempt' = attempt + 1
    /\ gpc' = "loop"
    /\ UNCHANGED <<mainVars, max_retries, retry_delay, success_delay, result>>

\* except Exception, else branch
GeminiCallFails ==
    /\ gpc = "try"
    /\ \E error_message \in ErrorMessages :
         /\ ~IsTransient(error_message)
         /\ log' = Append(log, Msg("error", "unexpected api error", error_message, <<>>))
    /\ events' = Append(events, CallEvent(attempt, "fatal", None))
    /\ result' = None
    /\ gpc' = "returned"
    /\ UNCHANGED <<mainVars, max_retries, retry_delay, success_delay, attempt>>

GeminiNext ==
    \/ GeminiForLoop
    \/ GeminiCallSucceeds
    \/ GeminiCallOverloaded
    \/ GeminiCallFails

(***************************************************************************)
(* getFirstArticleUrl, getArticleContent, convertToHtml                    *)
(***************************************************************************)
Returned(v) == [ok |-> TRUE, value |-> <<v>>, exc |-> NoException]
Raised(e) == [ok |-> FALSE, value |-> <<>>, exc |-> e]

\* resp.status_code != 200 raises; brick_div, ul, first_li, link_tag each
\* collapse to None when the one before is None; no link_tag or no href raises
getFirstArticleUrl(page) ==
    IF page.status # 200
    THEN Raised(Msg("Exception", "listing request failed", <<>>, <<page.status>>))
    ELSE IF page.depth < 5
    THEN Raised(Msg("Exception", "article link not found", <<>>, <<>>))
    ELSE Returned(page.href)

NoTitle == "NO TITLE"
NoBody == "NO BODY"

\* a missing title or body container gives the placeholder, never an error
getArticleContent(page) ==
    IF page.status # 200
    THEN Raised(Msg("Exception", "article request failed", <<>>, <<page.status>>))
    ELSE Returned([title |-> IF page.hasTitle THEN "article title" ELSE NoTitle,
                   body |-> IF page.hasBody THEN "line1\nline2" ELSE NoBody])

\* for key in required_keys: if key not in json_response: raise
\* 0 when the loop ends without raising, else the index of the key it raises on
RECURSIVE FirstMissingFrom(_, _)
FirstMissingFrom(obj, i) ==
    IF i > Len(required_keys) THEN 0
    ELSE IF required_keys[i] \notin DOMAIN obj THEN i
    ELSE FirstMissingFrom(obj, i + 1)

LastMissingKey(obj) ==
    IF \A i \in 1..Len(required_keys) : required_keys[i] \in DOMAIN obj THEN 0
    ELSE CHOOSE i \in 1..Len(required_keys) :
           /\ required_keys[i] \notin DOMAIN obj
           /\ \A j \in (i + 1)..Len(required_keys) : required_keys[j] \in DOMAIN obj

FirstMissingKey(obj) == FirstMissingFrom(obj, 1)

\* generate_key_terms_html: term_info["term"] is read before
\* term_info["definition"], entry by entry; a missing one is a KeyError
RECURSIVE TermsKeyError(_, _)
TermsKeyError(key_terms, i) ==
    IF i > Len(key_terms) THEN ""
    ELSE IF "term" \notin DOMAIN key_terms[i] THEN "term"
    ELSE IF "definition" \notin DOMAIN key_terms[i] THEN "definition"
    ELSE TermsKeyError(key_terms, i + 1)

generate_key_terms_html(key_terms) ==
    [i \in 1..Len(key_terms) |->
        [term |-> key_terms[i]["term"], definition |-> key_terms[i]["definition"]]]

\* the template: the six texts, the list of key terms and the link, in place
HtmlTemplate(obj, url) ==
    [title |-> obj["title"], summary |-> obj["summary"], meaning |-> obj["meaning"],
     importance |-> obj["importance"], impact_on_us |-> obj["impact_on_us"],
     food_for_thought |-> obj["food_for_thought"],
     key_terms |-> generate_key_terms_html(obj["key_terms"]), href |-> url]

convertToHtml(resp, url) ==
    IF resp.kind = "None"
    THEN Raised(Msg("TypeError", "json.loads of None", <<>>, <<>>))
    ELSE IF resp.kind = "malformed"
    THEN Raised(Msg("JSONDecodeError", "not json", <<>>, <<>>))
    ELSE IF resp.kind = "scalar"
    THEN Raised(Msg("TypeError", "not a container", <<>>, <<>>))
    ELSE IF FirstMissingKey(resp.obj) # 0
    THEN Raised(Msg("Exception", "key does not exist",
                    <<required_keys[FirstMissingKey(resp.obj)]>>, <<>>))
    ELSE IF TermsKeyError(resp.obj["key_terms"], 1) # ""
    THEN Raised(Msg("KeyError", "", <<TermsKeyError(resp.obj["key_terms"], 1)>>, <<>>))
    ELSE Returned(HtmlTemplate(resp.obj, url))

(***************************************************************************)
(* __main__                                                                *)
(***************************************************************************)
IsNone(value) == value = "absent"

\* if not os.getenv(var)
IsUnset(value) == value # "set"

\* missing_vars, appended in the order of required_env_vars
MissingVars(e) == SelectSeq(required_env_vars, LAMBDA v : IsUnset(e[v]))

\* except Exception as e: logger.error(...)
TopLevelHandler(lg, e) == Append(lg, Msg("error", "error occurred", <<e.kind, e.text>> \o e.parts, e.nums))

Stage(name, outcome) == [stage |-> name, outcome |-> outcome]

\* lines 256-269: collect the missing names; raise ValueError outside any try
MainCheckEnv ==
    /\ pc = "start"
    /\ LET missing_vars == MissingVars(env)
       IN IF missing_vars # <<>>
          THEN /\ log' = Append(log, Msg("error", "required env not set", missing_vars, <<>>))
               /\ raised' = Msg("ValueError", "required env not set", missing_vars, <<>>)
               /\ pc' = "crashed"
          ELSE /\ pc' = "locate"
               /\ UNCHANGED <<log, raised>>
    /\ UNCHANGED <<env, article_url, title, body, response, html_response,
                   trace, published, notified, geminiVars>>

MainLocateRetrying ==
    /\ pc = "locate"
    /\ \E page \in ListingPages :
         LET r == getFirstArticleUrl(page)
         IN IF r.ok
            THEN /\ article_url' = r.value[1]
                 /\ trace' = Append(trace, Stage("Locator", "ok"))
                 /\ log' = Append(log, Msg("info", "article link", <<r.value[1]>>, <<>>))
                 /\ pc' = "extract"
            ELSE /\ trace' = Append(trace, Stage("Locator", "raised"))
                 /\ log' = TopLevelHandler(log, r.exc)
                 /\ pc' = "locate"
                 /\ UNCHANGED article_url
    /\ UNCHANGED <<env, raised, title, body, response, html_response,
                   published, notified, geminiVars>>

\* lines 279-280
MainLocate ==
    /\ pc = "locate"
    /\ \E page \in ListingPages :
         LET r == getFirstArticleUrl(page)
         IN IF r.ok
            THEN /\ article_url' = r.value[1]
                 /\ trace' = Append(trace, Stage("Locator", "ok"))
                 /\ log' = Append(log, Msg("info", "article link", <<r.value[1]>>, <<>>))
                 /\ pc' = "extract"
            ELSE /\ trace' = Append(trace, Stage("Locator", "raised"))
                 /\ log' = TopLevelHandler(log, r.exc)
                 /\ pc' = "done"
                 /\ UNCHANGED article_url
    /\ UNCHANGED <<env, raised, title, body, response, html_response,
                   published, notified, geminiVars>>

\* lines 282-285
MainExtract ==
    /\ pc = "extract"
    /\ \E page \in ArticlePages :
         LET r == getArticleContent(page)
         IN IF r.ok
            THEN /\ title' = r.value[1].title
                 /\ body' = r.value[1].body
                 /\ trace' = Append(trace, Stage("Extractor", "ok"))
                 /\ log' = log \o << Msg("info", "article title", <<r.value[1].title>>, <<>>),
                                     Msg("info", "article body", <<r.value[1].body>>, <<>>) >>
                 /\ pc' = "summarize"
            ELSE /\ trace' = Append(trace, Stage("Extractor", "raised"))
                 /\ log' = TopLevelHandler(log, r.exc)
                 /\ pc' = "done"
                 /\ UNCHANGED <<title, body>>
    /\ UNCHANGED <<env, raised, article_url, response, html_response,
                   published, notified, geminiVars>>

\* line 287, the call: the three keyword parameters take their defaults
MainCallGemini ==
    /\ pc = "summarize"
    /\ gpc = "idle"
    /\ max_retries' = DefaultMaxRetries
    /\ retry_delay' = DefaultRetryDelay
    /\ success_delay' = DefaultSuccessDelay
    /\ attempt' = 0
    /\ gpc' = "loop"
    /\ UNCHANGED <<mainVars, log, result, events>>

MainCheckResponseNoNoneCheck ==
    /\ pc = "summarize"
    /\ gpc = "returned"
    /\ response' = result
    /\ trace' = Append(trace, Stage("Summarizer", IF result = None THEN "null" ELSE "ok"))
    /\ log' = Append(log, Msg("info", "gemini response", <<result.kind>>, <<>>))
    /\ pc' = "render"
    /\ UNCHANGED <<env, raised, article_url, title, body, html_response,
                   published, notified, geminiVars>>

\* lines 287-292, the return: None raises into the top-level handler
MainCheckResponse ==
    /\ pc = "summarize"
    /\ gpc = "returned"
    /\ response' = result
    /\ IF result = None
       THEN /\ trace' = Append(trace, Stage("Summarizer", "null"))
            /\ log' = TopLevelHandler(Append(log, Msg("error", "gemini call failed", <<>>, <<>>)),
                                      Msg("Exception", "gemini call failed", <<>>, <<>>))
            /\ pc' = "done"
       ELSE /\ trace' = Append(trace, Stage("Summarizer", "ok"))
            /\ log' = Append(log, Msg("info", "gemini response", <<result.kind>>, <<>>))
            /\ pc' = "render"
    /\ UNCHANGED <<env, raised, article_url, title, body, html_response,
                   published, notified, geminiVars>>

MainRenderNotifying ==
    /\ pc = "render"
    /\ LET r == convertToHtml(response, article_url)
       IN IF r.ok
          THEN /\ html_response' = r.value
               /\ trace' = Append(trace, Stage("Renderer", "ok"))
               /\ log' = Append(log, Msg("info", "html response", <<>>, <<>>))
               /\ pc' = "publish"
               /\ UNCHANGED notified
          ELSE /\ trace' = trace \o << Stage("Renderer", "raised"), Stage("Notifier", "ok") >>
               /\ notified' = Append(notified, << "[ai-news-explainer] API error", r.exc.text >>)
               /\ log' = TopLevelHandler(log, r.exc)
               /\ pc' = "done"
               /\ UNCHANGED html_response
    /\ UNCHANGED <<env, raised, article_url, title, body, response,
                   published, geminiVars>>

\* lines 294-295
MainRender ==
    /\ pc = "render"
    /\ LET r == convertToHtml(response, article_url)
       IN IF r.ok
          THEN /\ html_response' = r.value
               /\ trace' = Append(trace, Stage("Renderer", "ok"))
               /\ log' = Append(log, Msg("info", "html response", <<>>, <<>>))
               /\ pc' = "publish"
          ELSE /\ trace' = Append(trace, Stage("Renderer", "raised"))
               /\ log' = TopLevelHandler(log, r.exc)
               /\ pc' = "done"
               /\ UNCHANGED html_response
    /\ UNCHANGED <<env, raised, article_url, title, body, response,
                   published, notified, geminiVars>>

\* what api_util.create_post does with the call: return, or raise ApiError
CreatePostOutcomes ==
    { Returned("posted") } \cup
    { Raised(Msg("ApiError", m, <<>>, <<>>)) : m \in ApiErrorMessages }

\* line 310: the text sent to the notifier, e.message last
NotifyText(e) == << "[ai-news-explainer] API error", e.text >>

MainPublishLogOnly ==
    /\ pc = "publish"
    /\ published' = Append(published, html_response[1])
    /\ \E r \in CreatePostOutcomes :
         IF r.ok
         THEN /\ trace' = Append(trace, Stage("Publisher", "ok"))
              /\ log' = log \o << Msg("info", "create post start", <<>>, <<>>),
                                  Msg("info", "create post done", <<>>, <<>>) >>
         ELSE /\ trace' = Append(trace, Stage("Publisher", "raised"))
              /\ log' = log \o << Msg("info", "create post start", <<>>, <<>>),
                                  Msg("error", "create post error", <<r.exc.text>>, <<>>) >>
    /\ pc' = "done"
    /\ UNCHANGED <<env, raised, article_url, title, body, response, html_response,
                   notified, geminiVars>>

\* lines 298-312
MainPublish ==
    /\ pc = "publish"
    /\ published' = Append(published, html_response[1])
    /\ \E r \in CreatePostOutcomes :
         IF r.ok
         THEN /\ trace' = Append(trace, Stage("Publisher", "ok"))
              /\ log' = log \o << Msg("info", "create post start", <<>>, <<>>),
                                  Msg("info", "create post done", <<>>, <<>>) >>
              /\ UNCHANGED notified
         ELSE /\ trace' = trace \o << Stage("Publisher", "raised"), Stage("Notifier", "ok") >>
              /\ notified' = Append(notified, NotifyText(r.exc))
              /\ log' = log \o << Msg("info", "create post start", <<>>, <<>>),
                                  Msg("error", "create post error", <<r.exc.text>>, <<>>) >>
    /\ pc' = "done"
    /\ UNCHANGED <<env, raised, article_url, title, body, response, html_response,
                   geminiVars>>

(***************************************************************************)
(* Specifications                                                          *)
(***************************************************************************)
EmptyState ==
    /\ raised = NoException
    /\ article_url = ""
    /\ title = ""
    /\ body = ""
    /\ response = None
    /\ html_response = <<>>
    /\ trace = <<>>
    /\ published = <<>>
    /\ notified = <<>>
    /\ log = <<>>
    /\ result = None
    /\ events = <<>>

\* the process starts with whatever environment it is given
Init ==
    /\ env \in Environments
    /\ pc = "start"
    /\ gpc = "idle"
    /\ max_retries = DefaultMaxRetries
    /\ retry_delay = DefaultRetryDelay
    /\ success_delay = DefaultSuccessDelay
    /\ attempt = 0
    /\ EmptyState

Next ==
    \/ MainCheckEnv
    \/ MainLocate
    \/ MainExtract
    \/ MainCallGemini
    \/ GeminiForLoop
    \/ GeminiCallSucceeds
    \/ GeminiCallOverloaded
    \/ GeminiCallFails
    \/ MainCheckResponse
    \/ MainRender
    \/ MainPublish

Spec == Init /\ [][Next]_vars

\* getGeminiResponse called on its own, with any parameters
InitGemini ==
    /\ env = [v \in EnvNames |-> "set"]
    /\ pc = "caller"
    /\ gpc = "loop"
    /\ max_retries \in 0..MaxRetriesBound
    /\ retry_delay \in {1, DefaultRetryDelay}
    /\ success_delay \in {0, DefaultSuccessDelay}
    /\ attempt = 0
    /\ EmptyState

SpecGemini == InitGemini /\ [][GeminiNext]_vars

\* the loop is straight-line code: a step that can be taken is taken
FairSpecGemini == SpecGemini /\ WF_vars(GeminiNext)

(***************************************************************************)
(* Properties of getGeminiResponse                                         *)
(***************************************************************************)
IsCall(i, outcome) == events[i].ev = "call" /\ events[i].outcome = outcome

CallCount == Cardinality({ i \in 1..Len(events) : events[i].ev = "call" })
SleepCount == Cardinality({ i \in 1..Len(events) : events[i].ev = "sleep" })

RECURSIVE Doubled(_)
Doubled(n) == IF n = 0 THEN 1 ELSE 2 * Doubled(n - 1)

\* C1: a transient failure at 0-based attempt n that is not the last allowed
\* attempt is followed at once by a sleep of retry_delay * 2^n (5, 10, 20
\* seconds for attempts 0, 1, 2 when retry_delay is 5) and then by the call of
\* attempt n + 1; the transient failure of the last allowed attempt is the
\* last thing the function does: no sleep follows, and it returns None.
C1_BackoffTiming ==
    \A i \in 1..Len(events) :
        IsCall(i, "transient") =>
            LET n == events[i].attempt
            IN IF n + 1 < max_retries
               THEN /\ i + 1 <= Len(events)
                    /\ events[i + 1].ev = "sleep"
                    /\ events[i + 1].secs = retry_delay * Doubled(n)
                    /\ (retry_delay = 5 /\ n <= 2) => events[i + 1].secs = <<5, 10, 20>>[n + 1]
                    /\ i + 2 <= Len(events) =>
                          events[i + 2].ev = "call" /\ events[i + 2].attempt = n + 1
               ELSE /\ n + 1 = max_retries
                    /\ i = Len(events)
                    /\ gpc = "returned"
                    /\ result = None

\* four transient failures in a row with retry_delay 5 and max_retries 4
C1_Witness ==
    /\ gpc = "returned"
    /\ retry_delay = 5
    /\ max_retries = 4
    /\ Len(events) = 7
    /\ \A i \in {1, 3, 5, 7} : IsCall(i, "transient")
    /\ events[6].secs = 20

\* C2: a failure that is not recognised as transient is the last thing the
\* function does, at any attempt: it has returned None, no call and no sleep
\* follows; on the first attempt that is one call and no sleep in all.
C2_FatalReturnsAtOnce ==
    \A i \in 1..Len(events) :
        IsCall(i, "fatal") =>
            /\ i = Len(events)
            /\ gpc = "returned"
            /\ result = None
            /\ events[i].attempt = 0 => (CallCount = 1 /\ SleepCount = 0)

C2_Witness ==
    /\ gpc = "returned"
    /\ Len(events) = 1
    /\ IsCall(1, "fatal")
    /\ max_retries >= 2

\* C3: a successful call at attempt k < max_retries is followed by exactly one
\* sleep of success_delay, after which the function has returned that call's
\* text; nothing follows, and every sleep before it is the backoff of one of
\* the k transient failures before it.
C3_SuccessReturnsText ==
    \A i \in 1..Len(events) :
        IsCall(i, "success") =>
            LET k == events[i].attempt
            IN /\ k < max_retries
               /\ Len(events) = i + 1
               /\ events[i + 1].ev = "sleep"
               /\ events[i + 1].secs = success_delay
               /\ gpc = "returned"
               /\ result = events[i].text
               /\ result # None
               /\ i = 2 * k + 1
               /\ SleepCount = k + 1
               /\ \A j \in 1..k : /\ IsCall(2 * j - 1, "transient")
                                  /\ events[2 * j].ev = "sleep"

C3_Witness ==
    /\ gpc = "returned"
    /\ Len(events) = 6
    /\ IsCall(5, "success")
    /\ result.kind = "object"
    /\ success_delay = 3

LastCall == events[CHOOSE i \in 1..Len(events) :
                      /\ events[i].ev = "call"
                      /\ \A j \in (i + 1)..Len(events) : events[j].ev # "call"]

C10_Safety ==
    /\ CallCount <= max_retries
    /\ gpc \in {"loop", "try", "returned"}
    /\ gpc = "returned" =>
          /\ result # None <=> (CallCount > 0 /\ LastCall.outcome = "success")
          /\ result # None => result = LastCall.text
          /\ max_retries = 0 => (events = <<>> /\ result = None)
          /\ raised = NoException

\* C10: whatever max_retries >= 0 and whatever the calls do, the function
\* returns, after at most max_retries calls; it returns a text exactly when its
\* last call succeeded and None otherwise (with no call and no sleep when
\* max_retries = 0), and no exception of a call reaches the caller.
C10_TerminatesWithinMaxRetries == [](C10_Safety) /\ <>(gpc = "returned")

C10_Witness ==
    /\ gpc = "returned"
    /\ max_retries >= 2
    /\ CallCount = max_retries
    /\ result # None

(***************************************************************************)
(* Properties of the pipeline run                                          *)
(***************************************************************************)
Invoked(name) == \E i \in 1..Len(trace) : trace[i].stage = name
InvokedTimes(name) == Cardinality({ i \in 1..Len(trace) : trace[i].stage = name })
LastLog == log[Len(log)]
NoNetworkActivity ==
    trace = <<>> /\ events = <<>> /\ published = <<>> /\ notified = <<>>

\* C4: once getGeminiResponse has returned None to the run, the run is over:
\* convertToHtml, create_post and send_test_message are never invoked, nothing
\* is published or notified, and the last thing done is an error log line.
C4_NullAbortsBeforeRender ==
    (gpc = "returned" /\ result = None /\ pc # "summarize") =>
        /\ pc = "done"
        /\ trace[Len(trace)] = Stage("Summarizer", "null")
        /\ ~Invoked("Renderer") /\ ~Invoked("Publisher") /\ ~Invoked("Notifier")
        /\ html_response = <<>>
        /\ published = <<>>
        /\ notified = <<>>
        /\ LastLog.kind = "error"

\* three overloaded calls, None handed to the run, run ended
C4_Witness ==
    /\ pc = "done"
    /\ result = None
    /\ CallCount = 3
    /\ Invoked("Summarizer")

\* C5: the notifier is invoked only right after a create_post that raised;
\* a failure of the locator, the extractor, the summarizer or the renderer and
\* a create_post that returned leave the notifier untouched.
C5_NotifyOnlyAfterFailedPublish ==
    /\ \A i \in 1..Len(trace) :
          trace[i].stage = "Notifier" =>
              i > 1 /\ trace[i - 1] = Stage("Publisher", "raised")
    /\ Len(notified) = InvokedTimes("Notifier")
    /\ notified # <<>> => \E i \in 1..Len(trace) : trace[i] = Stage("Publisher", "raised")
    /\ (\E i \in 1..Len(trace) :
           /\ trace[i].stage # "Publisher"
           /\ trace[i].outcome \in {"raised", "null"}) => notified = <<>>
    /\ (\E i \in 1..Len(trace) : trace[i] = Stage("Publisher", "ok")) => notified = <<>>

\* a run that failed in the renderer, with nothing sent
C5_Witness ==
    /\ pc = "done"
    /\ trace[Len(trace)] = Stage("Renderer", "raised")
    /\ notified = <<>>

\* C6: a create_post that raises ApiError is caught: one message, ending with
\* the error's message, goes to the notifier, the same message is logged as an
\* error, and the run is over with create_post invoked once and nothing after
\* the notification.
C6_PublishFailureNotifiesOnce ==
    \A i \in 1..Len(trace) :
        trace[i] = Stage("Publisher", "raised") =>
            /\ Len(trace) = i + 1
            /\ trace[i + 1].stage = "Notifier"
            /\ pc = "done"
            /\ raised = NoException
            /\ InvokedTimes("Publisher") = 1
            /\ Len(published) = 1
            /\ Len(notified) = 1
            /\ notified[1][Len(notified[1])] \in ApiErrorMessages
            /\ LastLog.kind = "error"
            /\ LastLog.parts = << notified[1][Len(notified[1])] >>

C6_Witness ==
    /\ pc = "done"
    /\ Invoked("Publisher")
    /\ notified = << <<"[ai-news-explainer] API error", "timeout">> >>

\* the order in which the seven names are declared
DeclaredEnvOrder ==
    << "PRESS_CODE", "GOOGLE_API_KEY", "GEMINI_MODEL", "BASE_URL",
       "TELEGRAM_CHAT_TEST_ID", "TELEGRAM_CHAT_ID", "TELEGRAM_BOT_TOKEN" >>

AbortedReporting(names) ==
    /\ pc = "crashed"
    /\ NoNetworkActivity
    /\ raised.kind = "ValueError"
    /\ raised.parts = names
    /\ Len(log) = 1
    /\ log[1].parts = names

\* C7 as stated: when a variable is absent the run aborts before any network
\* activity and its message lists exactly the absent names, in declared order.
C7_ReportsExactlyAbsent ==
    ((\E v \in EnvNames : env[v] = "absent") /\ pc # "start") =>
        AbortedReporting(SelectSeq(DeclaredEnvOrder, LAMBDA v : env[v] = "absent"))

\* C7, amended: when a variable is absent or set to the empty string the run
\* aborts before any network activity, and its one message lists exactly the
\* names that are absent or empty, in declared order.
C7_ReportsAbsentOrEmpty ==
    ((\E v \in EnvNames : env[v] \in {"absent", "empty"}) /\ pc # "start") =>
        AbortedReporting(SelectSeq(DeclaredEnvOrder,
                                   LAMBDA v : env[v] \in {"absent", "empty"}))

\* aborted with one name absent and another one empty
C7_Witness ==
    /\ pc = "crashed"
    /\ env["GEMINI_MODEL"] = "absent"
    /\ env["PRESS_CODE"] = "empty"
    /\ Len(raised.parts) = 3

\* the order in which convertToHtml is said to check the fields
StatedKeyOrder ==
    << "title", "summary", "meaning", "importance", "impact_on_us",
       "food_for_thought", "key_terms" >>

Rendered == trace # <<>> /\ trace[Len(trace)].stage = "Renderer"

\* C8: convertToHtml on a JSON object that lacks a required field raises,
\* naming the first absent field in the order title, summary, meaning,
\* importance, impact_on_us, food_for_thought, key_terms (meaning when only
\* meaning is absent), and produces no HTML; it produces a document only when
\* all seven fields are present.
C8_FirstMissingFieldNamed ==
    (Rendered /\ response.kind = "object") =>
        LET present == DOMAIN response.obj
            absentAt == { i \in 1..7 : StatedKeyOrder[i] \notin present }
        IN /\ absentAt # {} =>
                 /\ trace[Len(trace)].outcome = "raised"
                 /\ html_response = <<>>
                 /\ published = <<>>
                 /\ LastLog.kind = "error"
                 /\ LastLog.parts[1] = "Exception"
                 /\ \E i \in absentAt :
                       /\ \A j \in absentAt : i <= j
                       /\ LastLog.parts[3] = StatedKeyOrder[i]
                 /\ absentAt = {3} => LastLog.parts[3] = "meaning"
           /\ html_response # <<>> => absentAt = {}
           /\ trace[Len(trace)].outcome = "ok" => html_response # <<>>

\* rendering a payload that lacks summary and importance
C8_Witness ==
    /\ Rendered
    /\ response.kind = "object"
    /\ DOMAIN response.obj = { "title", "meaning", "impact_on_us", "food_for_thought", "key_terms" }
    /\ LastLog.parts[3] = "summary"

StageOrder == << "Locator", "Extractor", "Summarizer", "Renderer", "Publisher", "Notifier" >>

\* C9: create_post is invoked at most once, and only after the locator, the
\* extractor, the summarizer and the renderer were each invoked once, in that
\* order, and succeeded; a stage that fails is the last stage of the run and
\* nothing is published; what is published is the whole document that
\* convertToHtml returned for the response and the located article.
C9_PublishOnlyAfterAllStages ==
    /\ \A i \in 1..Len(trace) : trace[i].stage = StageOrder[i]
    /\ \A i \in 1..Len(trace) :
          (trace[i].stage # "Publisher" /\ trace[i].outcome # "ok") =>
              (i = Len(trace) /\ pc = "done" /\ published = <<>>)
    /\ Len(published) = InvokedTimes("Publisher")
    /\ Len(published) <= 1
    /\ published # <<>> =>
          /\ \A i \in 1..4 : trace[i] = Stage(StageOrder[i], "ok")
          /\ published = html_response
          /\ response.kind = "object"
          /\ \A i \in 1..7 : StatedKeyOrder[i] \in DOMAIN response.obj
          /\ \A k \in { "title", "summary", "meaning", "importance",
                        "impact_on_us", "food_for_thought" } :
                published[1][k] = response.obj[k]
          /\ Len(published[1].key_terms) = Len(response.obj["key_terms"])
          /\ \A i \in 1..Len(published[1].key_terms) :
                /\ published[1].key_terms[i].term = response.obj["key_terms"][i]["term"]
                /\ published[1].key_terms[i].definition = response.obj["key_terms"][i]["definition"]
          /\ published[1].href = article_url
          /\ article_url \in ArticleUrls

\* a run that published a document with one key term
C9_Witness ==
    /\ pc = "done"
    /\ trace = << Stage("Locator", "ok"), Stage("Extractor", "ok"), Stage("Summarizer", "ok"),
                  Stage("Renderer", "ok"), Stage("Publisher", "ok") >>
    /\ Len(published) = 1
    /\ Len(published[1].key_terms) = 1
    /\ published[1].href = "https://example.com/a2"

====
